---- MODULE Spec2Model ----
(***************************************************************************)
(* Model of the airports API: the geographic queries of AirportService     *)
(* (src/services/airportService.js), the text search, and the HTTP routes  *)
(* in front of them (src/routes/index.js), the import script               *)
(* (src/scripts/importCSV.js), the connection pool of the store and the    *)
(* container entrypoint.                                                   *)
(*                                                                         *)
(* Numbers.  Coordinates are whole degrees.  Trigonometric values are      *)
(* fixed-point numbers with denominator Scale.  Angles returned by acos    *)
(* are in units of 1e-4 radian, coordinate ranges (the bounding rectangle) *)
(* are in thousandths of a degree, distances are in hundredths of a        *)
(* kilometre.  Every intermediate product stays below 2^31.                *)
(*                                                                         *)
(* Optional values (a JavaScript argument that may be undefined, a query   *)
(* string parameter that may be missing, a result that may be null) are    *)
(* sequences of length 0 or 1.                                             *)
(***************************************************************************)
EXTENDS Integers, Sequences, FiniteSets, TLC

VARIABLES
    catalog,    \* the rows of table airports
    args,       \* arguments of the service call under study
    nearest,    \* what findNearestAirport returned last
    nearestK,   \* what findNearestAirports returned last
    req,        \* the HTTP request under study (its query string)
    res,        \* the HTTP response sent last
    searchArgs, \* arguments of the searchByName call under study
    found,      \* what searchByName returned last
    store,      \* how many further queries the store answers before it fails
    icaoArg,    \* argument of the findByICAO call under study
    byIcao,     \* what findByICAO returned last
    dataLoaded, \* what isDataLoaded returned last
    csv,        \* the rows of data/airports.csv
    imp,        \* the run of the import script
    pool,       \* the connection pool of the store and the queries using it
    boot        \* the run of the container entrypoint

vars == <<catalog, args, nearest, nearestK, req, res, searchArgs, found,
          store, icaoArg, byIcao, dataLoaded, csv, imp, pool, boot>>

textVars == <<searchArgs, found>>

lookupVars == <<icaoArg, byIcao, dataLoaded>>

scriptVars == <<csv, imp, pool, boot>>

-----------------------------------------------------------------------------
(* Bounds of the model *)

\* largest number of rows in the catalog
MaxCatalog == 3

-----------------------------------------------------------------------------
(* Optional values *)

Undefined == <<>>
Some(v) == <<v>>

-----------------------------------------------------------------------------
(* Fixed-point arithmetic *)

Scale == 10000

\* JavaScript Infinity: larger than every distance and radius of the model
Infinity == 1000000000

NaN == -2000000000

Abs(x) == IF x < 0 THEN -x ELSE x

\* a * b / Scale, rounded to nearest
Mul(a, b) == (a * b + Scale \div 2) \div Scale

\* cos of 0..90 degrees, times Scale
CosTable ==
  << 10000, 9998, 9994, 9986, 9976, 9962, 9945, 9925, 9903, 9877,
     9848, 9816, 9781, 9744, 9703, 9659, 9613, 9563, 9511, 9455,
     9397, 9336, 9272, 9205, 9135, 9063, 8988, 8910, 8829, 8746,
     8660, 8572, 8480, 8387, 8290, 8192, 8090, 7986, 7880, 7771,
     7660, 7547, 7431, 7314, 7193, 7071, 6947, 6820, 6691, 6561,
     6428, 6293, 6157, 6018, 5878, 5736, 5592, 5446, 5299, 5150,
     5000, 4848, 4695, 4540, 4384, 4226, 4067, 3907, 3746, 3584,
     3420, 3256, 3090, 2924, 2756, 2588, 2419, 2250, 2079, 1908,
     1736, 1564, 1392, 1219, 1045, 872, 698, 523, 349, 175,
     0 >>

\* cos(radians(deg)) for any whole number of degrees
Cos(deg) ==
    LET d == Abs(deg) % 360
        e == IF d > 180 THEN 360 - d ELSE d
    IN  IF e <= 90 THEN CosTable[e + 1] ELSE -CosTable[180 - e + 1]

\* sin(radians(deg))
Sin(deg) == Cos(90 - deg)

\* the whole number of degrees a in lo..hi with Cos(a) >= c > Cos(a + 1),
\* by bisection (Cos decreases on 0..180)
RECURSIVE DegreeBelow(_, _, _)
DegreeBelow(c, lo, hi) ==
    IF lo >= hi THEN lo
    ELSE LET mid == (lo + hi + 1) \div 2
         IN  IF Cos(mid) >= c THEN DegreeBelow(c, mid, hi)
             ELSE DegreeBelow(c, lo, mid - 1)

\* acos(x) in units of 1e-4 radian, x a fixed-point number in [-Scale, Scale]:
\* the whole degree below is found in the table, the rest is interpolated
Acos(x) ==
    LET c == IF x > Scale THEN Scale ELSE IF x < -Scale THEN -Scale ELSE x
        a == DegreeBelow(c, 0, 179)
        mdeg == a * 1000 + ((Cos(a) - c) * 1000) \div (Cos(a) - Cos(a + 1))
    IN  (mdeg * 1745 + (mdeg * 33) \div 100 + 5000) \div 10000

EarthRadius == 6371

\* the column "distance" of buildGeoQuery, in hundredths of a kilometre:
\* 6371 * acos(cos(lat0) cos(lat) cos(lon - lon0) + sin(lat0) sin(lat))
Distance(lat0, lon0, lat, lon) ==
    (EarthRadius *
       Acos(Mul(Mul(Cos(lat0), Cos(lat)), Cos(lon - lon0))
            + Mul(Sin(lat0), Sin(lat)))) \div 100

\* a radius in kilometres, in the unit of Distance
Km(r) == IF r = Infinity THEN Infinity ELSE r * 100

-----------------------------------------------------------------------------
(* The catalog: table airports *)

large == "large_airport"
medium == "medium_airport"
small == "small_airport"
heliport == "heliport"

Airport(icao, name, city, lat, lon, type) ==
    [icao |-> icao, name |-> name, city |-> city,
     latitude |-> lat, longitude |-> lon, type |-> type]

\* The rows the geographic catalogs are drawn from
GeoRows ==
    { Airport("AAAA", <<"a">>, <<"x">>, 0, 0, large),
      Airport("BBBB", <<"b">>, <<"x">>, 10, 10, medium),
      Airport("CCCC", <<"c">>, <<"y">>, 10, -10, small),
      Airport("DDDD", <<"d">>, <<"y">>, 0, -175, small),
      Airport("EEEE", <<"e">>, <<"z">>, 76, 60, heliport),
      Airport("FFFF", <<"f">>, <<"z">>, -60, 0, small) }

\* icao is UNIQUE in the table
UniqueIcao(rows) == \A a, b \in rows : a.icao = b.icao => a = b

GeoCatalogs ==
    { c \in SUBSET GeoRows : Cardinality(c) <= MaxCatalog /\ UniqueIcao(c) }

-----------------------------------------------------------------------------
(* The geographic queries of AirportService *)

DefaultTypes == <<large, medium, small>>
DefaultLimit == 5
KmPerDegree == 111
FullLatRange == 90
FullLonRange == 180

\* latRange, in thousandths of a degree
LatRange(maxDistance) ==
    IF maxDistance = Infinity THEN FullLatRange * 1000
    ELSE (maxDistance * 1000) \div KmPerDegree

\* Math.cos(lat * Math.PI / 180) is 6.1e-17, not 0, at lat = 90 and -90: the
\* quotient is then a finite double far above every longitude; the model
\* saturates it at Infinity
LonRange(lat, maxDistance) ==
    IF maxDistance = Infinity THEN FullLonRange * 1000
    ELSE IF Cos(lat) = 0 THEN (IF maxDistance = 0 THEN 0 ELSE Infinity)
    ELSE (((maxDistance * 1000) \div KmPerDegree) * Scale) \div Cos(lat)

\* latitude BETWEEN $1 - $3 AND $1 + $3 AND longitude BETWEEN $2 - $4 AND $2 + $4
InRectangle(row, lat, lon, latRange, lonRange) ==
    /\ row.latitude * 1000 >= lat * 1000 - latRange
    /\ row.latitude * 1000 <= lat * 1000 + latRange
    /\ row.longitude * 1000 >= lon * 1000 - lonRange
    /\ row.longitude * 1000 <= lon * 1000 + lonRange

Range(s) == { s[i] : i \in 1..Len(s) }

\* the filter added whatever the length of types: an empty array matches no row
TypeFilterAlways(row, types) == row.type \in Range(types)

\* typeFilter: AND type = ANY(types) when types is not empty, nothing otherwise
TypeFilter(row, types) == Len(types) > 0 => row.type \in Range(types)

\* a row of the geographic SELECT: the columns and the computed distance
GeoRow(row, lat, lon) ==
    [icao |-> row.icao, name |-> row.name, city |-> row.city,
     latitude |-> row.latitude, longitude |-> row.longitude,
     type |-> row.type,
     distance |-> Distance(lat, lon, row.latitude, row.longitude)]

\* the rows the WHERE clause of the geographic queries keeps
Candidates(cat, lat, lon, latRange, lonRange, types) ==
    { GeoRow(row, lat, lon) :
        row \in { r \in cat : /\ InRectangle(r, lat, lon, latRange, lonRange)
                              /\ TypeFilter(r, types) } }

\* ORDER BY dropped from the query: the rows in any order
OrderByNothing(rows) ==
    LET n == Cardinality(rows)
    IN  { s \in [1..n -> rows] : \A i, j \in 1..n : i # j => s[i] # s[j] }

\* ORDER BY distance: the store may return the rows in any order in which
\* the distances do not decrease (rows at the same distance in any order)
OrderByDistance(rows) ==
    LET n == Cardinality(rows)
    IN  { s \in [1..n -> rows] :
            /\ \A i, j \in 1..n : i # j => s[i] # s[j]
            /\ \A i \in 1..n - 1 : s[i].distance <= s[i + 1].distance }

\* no LIMIT: every row
LimitAll(s, n) == s

\* LIMIT n
Limit(s, n) == SubSeq(s, 1, IF n < Len(s) THEN n ELSE Len(s))

\* every result.rows the store may answer to the geographic query
GeoQuery(cat, lat, lon, latRange, lonRange, types, limit) ==
    { Limit(s, limit) :
        s \in OrderByDistance(Candidates(cat, lat, lon, latRange, lonRange, types)) }

\* formatAirport(airport, true)
FormatAirport(a) ==
    [icao |-> a.icao, name |-> a.name, lat |-> a.latitude, lon |-> a.longitude,
     city |-> a.city, type |-> a.type, distance |-> a.distance]

\* rows.map(a => formatAirport(a, true))
FormatAirports(rows) == [i \in 1..Len(rows) |-> FormatAirport(rows[i])]

\* the .filter forgotten: the rows of the rectangle are returned as they are
WithinMaxDistanceUnchecked(a, maxDistance) == TRUE

\* the test of the .filter of findNearestAirports
WithinMaxDistance(a, maxDistance) ==
    maxDistance = Infinity \/ a.distance <= Km(maxDistance)

\* the test before "return null" of findNearestAirport
NoneFound(rows, maxDistance) ==
    \/ Len(rows) = 0
    \/ (maxDistance # Infinity /\ rows[1].distance > Km(maxDistance))

\* a parameter with a default value
Default(opt, value) == IF opt = Undefined THEN value ELSE opt[1]

\* every value findNearestAirport(lat, lon, maxDistance, types) may return:
\* <<>> is null
NearestAirport(cat, lat, lon, maxDistanceArg, typesArg) ==
    LET maxDistance == Default(maxDistanceArg, Infinity)
        types == Default(typesArg, DefaultTypes)
        latRange == LatRange(maxDistance)
        lonRange == LonRange(lat, maxDistance)
    IN  { IF NoneFound(rows, maxDistance) THEN <<>>
          ELSE <<FormatAirport(rows[1])>> :
            rows \in GeoQuery(cat, lat, lon, latRange, lonRange, types, 1) }

\* every list findNearestAirports(lat, lon, limit, maxDistance, types) may return
NearestAirports(cat, lat, lon, limitArg, maxDistanceArg, typesArg) ==
    LET limit == Default(limitArg, DefaultLimit)
        maxDistance == Default(maxDistanceArg, Infinity)
        types == Default(typesArg, DefaultTypes)
        latRange == LatRange(maxDistance)
        lonRange == LonRange(lat, maxDistance)
    IN  { LET Keep(a) == WithinMaxDistance(a, maxDistance)
          IN  FormatAirports(SelectSeq(rows, Keep)) :
            rows \in GeoQuery(cat, lat, lon, latRange, lonRange, types, limit) }

-----------------------------------------------------------------------------
(* Calls of the service *)

NotCalled == [called |-> FALSE, ret |-> <<>>, error |-> <<>>]
Returned(v) == [called |-> TRUE, ret |-> v, error |-> <<>>]

\* the call rejected with error e
Thrown(e) == [called |-> TRUE, ret |-> <<>>, error |-> <<e>>]

\* the store answers queries while store is above 0; the count goes down
\* with every query unless it is Infinity (a store that never fails)
After(st) == IF st = Infinity \/ st = 0 THEN st ELSE st - 1

ConnectionError == "connect ECONNREFUSED"
InvalidLimit == "invalid input syntax for type bigint"
NegativeLimit == "LIMIT must not be negative"

\* the error query(text, params) rethrows for a query with LIMIT limit,
\* <<>> when the store answers the query
QueryError(st, limit) ==
    IF st = 0 THEN <<ConnectionError>>
    ELSE IF limit = NaN THEN <<InvalidLimit>>
    ELSE IF limit < 0 THEN <<NegativeLimit>>
    ELSE <<>>

CallArgs(lat, lon, limit, maxDistance, types) ==
    [lat |-> lat, lon |-> lon, limit |-> limit,
     maxDistance |-> maxDistance, types |-> types]

\* findNearestAirport(args.lat, args.lon, args.maxDistance, args.types)
findNearestAirport ==
    /\ IF QueryError(store, 1) # <<>>
       THEN nearest' = Thrown(QueryError(store, 1)[1])
       ELSE \E r \in NearestAirport(catalog, args.lat, args.lon,
                                    args.maxDistance, args.types) :
               nearest' = Returned(r)
    /\ store' = After(store)
    /\ UNCHANGED <<catalog, args, nearestK, req, res, textVars, lookupVars,
                   scriptVars>>

\* findNearestAirports(args.lat, args.lon, args.limit, args.maxDistance, args.types)
findNearestAirports ==
    /\ LET error == QueryError(store, Default(args.limit, DefaultLimit))
       IN  IF error # <<>>
           THEN nearestK' = Thrown(error[1])
           ELSE \E r \in NearestAirports(catalog, args.lat, args.lon, args.limit,
                                         args.maxDistance, args.types) :
                   nearestK' = Returned(r)
    /\ store' = After(store)
    /\ UNCHANGED <<catalog, args, nearest, req, res, textVars, lookupVars,
                   scriptVars>>

-----------------------------------------------------------------------------
(* The HTTP routes.  A query string parameter is a sequence of characters. *)

Digits == <<"0", "1", "2", "3", "4", "5", "6", "7", "8", "9">>

IsDigit(c) == \E d \in 1..10 : Digits[d] = c

DigitValue(c) == (CHOOSE d \in 1..10 : Digits[d] = c) - 1

\* the value of the longest prefix of s made of digits; NaN when it is empty
RECURSIVE ParseDigits(_, _, _)
ParseDigits(s, i, acc) ==
    IF i > Len(s) \/ ~IsDigit(s[i])
    THEN (IF i = 1 THEN NaN ELSE acc)
    ELSE ParseDigits(s, i + 1, acc * 10 + DigitValue(s[i]))

\* parseInt(s) and, on the strings of the model (no fraction, no exponent),
\* parseFloat(s): an optional sign, then digits; what follows them is ignored
ParseNumber(s) ==
    IF Len(s) > 0 /\ s[1] \in {"-", "+"}
    THEN LET v == ParseDigits(Tail(s), 1, 0)
         IN  IF v = NaN THEN NaN ELSE IF s[1] = "-" THEN -v ELSE v
    ELSE ParseDigits(s, 1, 0)

\* a query string parameter that is missing or empty is falsy
Falsy(param) == param = Undefined \/ param[1] = <<>>

Response(route, status, success, message, count, data) ==
    [sent |-> TRUE, route |-> route, status |-> status, success |-> success,
     message |-> message, count |-> count, data |-> data, error |-> <<>>]

\* res.status(500).json({ success: false, message, error }): error is <<>>
\* when the body has no field error
ErrorResponse(route, message, error) ==
    [Response(route, 500, FALSE, message, 0, <<>>) EXCEPT !.error = error]

NoRes ==
    [sent |-> FALSE, route |-> "", status |-> 0, success |-> FALSE,
     message |-> "", count |-> 0, data |-> <<>>, error |-> <<>>]

\* isDataLoaded: SELECT COUNT(*) FROM airports is above 0
IsDataLoaded(cat) == Cardinality(cat) > 0

\* isDataLoaded with its catch: false when the query fails
DataLoaded(st, cat) == IF QueryError(st, 0) # <<>> THEN FALSE ELSE IsDataLoaded(cat)

\* checkDataLoaded then validateCoordinates: the response that ends the
\* request before its handler runs, <<>> when the handler runs
Middleware(route, st, cat, r) ==
    IF ~DataLoaded(st, cat)
    THEN <<Response(route, 503, FALSE, "Aucune donnee d'aeroport dans la base", 0, <<>>)>>
    ELSE IF Falsy(r.lat) \/ Falsy(r.lon)
    THEN <<Response(route, 400, FALSE, "Les parametres lat et lon sont requis", 0, <<>>)>>
    ELSE IF ParseNumber(r.lat[1]) = NaN \/ ParseNumber(r.lon[1]) = NaN
    THEN <<Response(route, 400, FALSE, "Les parametres lat et lon doivent etre des nombres valides", 0, <<>>)>>
    ELSE IF \/ ParseNumber(r.lat[1]) < -90 \/ ParseNumber(r.lat[1]) > 90
            \/ ParseNumber(r.lon[1]) < -180 \/ ParseNumber(r.lon[1]) > 180
    THEN <<Response(route, 400, FALSE, "Coordonnees invalides", 0, <<>>)>>
    ELSE <<>>

\* const maxDist = req.query.maxDistance ? parseFloat(req.query.maxDistance) : Infinity
RouteMaxDistance(param) ==
    IF Falsy(param) THEN Infinity ELSE ParseNumber(param[1])

\* parseInt(req.query.limit) || 5: a limit of 0 falls back to the default
RouteLimitOrDefault(param) ==
    IF Falsy(param) \/ ParseNumber(param[1]) = 0 THEN DefaultLimit
    ELSE ParseNumber(param[1])

\* const limit = req.query.limit ? parseInt(req.query.limit) : 5
RouteLimit(param) ==
    IF Falsy(param) THEN DefaultLimit ELSE ParseNumber(param[1])

All == <<"a", "l", "l">>

\* the type names of the query strings and the values of column type
TypeName(chars) ==
    CASE chars = <<"h">> -> heliport
      [] chars = <<"s">> -> small
      [] chars = <<"m">> -> medium
      [] chars = <<"l">> -> large
      [] OTHER -> "unknown"

\* let types = [large, medium, small]; if (req.query.type) { all ? [] : [type] }
RouteTypes(param) ==
    IF Falsy(param) THEN DefaultTypes
    ELSE IF param[1] = All THEN <<>>
    ELSE <<TypeName(param[1])>>

\* formatAirportResponse: the distance is rounded to a tenth of a kilometre
FormatAirportResponse(a) ==
    [icao |-> a.icao, name |-> a.name, city |-> a.city, type |-> a.type,
     distance |-> ((a.distance + 5) \div 10) * 10,
     location |-> [lat |-> a.lat, lon |-> a.lon]]

\* GET /icao
GetIcao ==
    LET early == Middleware("/icao", store, catalog, req)
        error == QueryError(After(store), 1)
    IN  IF early # <<>>
        THEN /\ res' = early[1]
             /\ store' = After(store)
             /\ UNCHANGED <<catalog, args, nearest, nearestK, req, textVars,
                            lookupVars, scriptVars>>
        ELSE LET call == CallArgs(ParseNumber(req.lat[1]), ParseNumber(req.lon[1]),
                                  Undefined,
                                  Some(RouteMaxDistance(req.maxDistance)),
                                  Some(RouteTypes(req.type)))
             IN  /\ IF error # <<>>
                    THEN /\ nearest' = Thrown(error[1])
                         /\ res' = ErrorResponse("/icao", "Erreur lors de la recherche",
                                                 error)
                    ELSE \E airport \in NearestAirport(catalog, call.lat, call.lon,
                                                  call.maxDistance, call.types) :
                       /\ nearest' = Returned(airport)
                       /\ res' = IF airport = <<>>
                                 THEN Response("/icao", 404, FALSE,
                                               IF Falsy(req.maxDistance)
                                               THEN "Aucun aeroport trouve a proximite"
                                               ELSE "Aucun aeroport trouve dans un rayon",
                                               0, <<>>)
                                 ELSE Response("/icao", 200, TRUE, "", 0,
                                               <<[icao |-> airport[1].icao,
                                                  name |-> airport[1].name]>>)
                 /\ args' = call
                 /\ nearestK' = NotCalled
                 /\ store' = After(After(store))
                 /\ UNCHANGED <<catalog, req, textVars, lookupVars, scriptVars>>

\* GET /icao/nearest
GetIcaoNearest ==
    LET early == Middleware("/icao/nearest", store, catalog, req)
    IN  IF early # <<>>
        THEN /\ res' = early[1]
             /\ store' = After(store)
             /\ UNCHANGED <<catalog, args, nearest, nearestK, req, textVars,
                            lookupVars, scriptVars>>
        ELSE LET call == CallArgs(ParseNumber(req.lat[1]), ParseNumber(req.lon[1]),
                                  Some(RouteLimit(req.limit)),
                                  Some(RouteMaxDistance(req.maxDistance)),
                                  Some(RouteTypes(req.type)))
                 error == QueryError(After(store), call.limit[1])
             IN  /\ IF error # <<>>
                    THEN /\ nearestK' = Thrown(error[1])
                         /\ res' = ErrorResponse("/icao/nearest",
                                                 "Erreur lors de la recherche", <<>>)
                    ELSE \E airports \in NearestAirports(catalog, call.lat, call.lon,
                                      call.limit, call.maxDistance, call.types) :
                       /\ nearestK' = Returned(airports)
                       /\ res' = Response("/icao/nearest", 200, TRUE, "",
                                          Len(airports),
                                          [i \in 1..Len(airports) |->
                                             FormatAirportResponse(airports[i])])
                 /\ args' = call
                 /\ nearest' = NotCalled
                 /\ store' = After(After(store))
                 /\ UNCHANGED <<catalog, req, textVars, lookupVars, scriptVars>>

-----------------------------------------------------------------------------
(* The specification: one catalog, and either the arguments of direct calls *)
(* of the service or one HTTP request                                       *)

NoArgs == CallArgs(0, 0, Undefined, Undefined, Undefined)

NoSearch == [name |-> <<>>, limit |-> Undefined]

NoReq == [lat |-> Undefined, lon |-> Undefined, limit |-> Undefined,
          maxDistance |-> Undefined, type |-> Undefined]

\* no import run, no pool, no entrypoint run
NoImport == [pc |-> "off"]
NoPool == [inUse |-> 0]
NoBoot == [pc |-> "off"]

\* the parts of the state a specification does not use
NoLookup == icaoArg = <<>> /\ byIcao = NotCalled /\ dataLoaded = NotCalled
NoScripts == csv = <<>> /\ imp = NoImport /\ pool = NoPool /\ boot = NoBoot

QueryLats == {0, 60, 90}
QueryLons == {0, 180}
Limits == {Undefined, Some(0), Some(1)}
MaxDistances == {Undefined, Some(1500), Some(3000)}
TypeSets == {Undefined, Some(<<>>), Some(<<small>>), Some(<<heliport>>)}

ArgSets ==
    [lat : QueryLats, lon : QueryLons, limit : Limits,
     maxDistance : MaxDistances, types : TypeSets]

ReqSets ==
    [lat : {Undefined, Some(<<"6", "0">>)},
     lon : {Some(<<"0">>)},
     limit : {Undefined, Some(<<"0">>), Some(<<"2">>)},
     maxDistance : {Undefined, Some(<<"3", "0", "0", "0">>)},
     type : {Undefined, Some(All), Some(<<"h">>)}]

Init ==
    /\ catalog \in GeoCatalogs
    /\ \/ args \in ArgSets /\ req = NoReq
       \/ args = NoArgs /\ req \in ReqSets
    /\ nearest = NotCalled
    /\ nearestK = NotCalled
    /\ res = NoRes
    /\ searchArgs = NoSearch
    /\ found = NotCalled
    /\ store = Infinity
    /\ NoLookup
    /\ NoScripts

Next ==
    \/ findNearestAirport
    \/ findNearestAirports
    \/ GetIcao
    \/ GetIcaoNearest

Spec == Init /\ [][Next]_vars

-----------------------------------------------------------------------------
(* The text search of AirportService.  A name, a city and the searched     *)
(* text are sequences of characters.                                       *)

UpperCase == <<"A", "B", "C", "D", "E", "F", "G", "H", "I", "J", "K", "L", "M",
               "N", "O", "P", "Q", "R", "S", "T", "U", "V", "W", "X", "Y", "Z">>
LowerCase == <<"a", "b", "c", "d", "e", "f", "g", "h", "i", "j", "k", "l", "m",
               "n", "o", "p", "q", "r", "s", "t", "u", "v", "w", "x", "y", "z">>

\* LOWER(s)
LowerChar(c) ==
    IF \E i \in 1..26 : UpperCase[i] = c
    THEN LowerCase[CHOOSE i \in 1..26 : UpperCase[i] = c]
    ELSE c

Lower(s) == [i \in 1..Len(s) |-> LowerChar(s[i])]

\* s LIKE pattern, from position i of s and j of pattern: % matches any
\* sequence of characters, _ any one character, \ takes the next character
\* of the pattern literally
RECURSIVE LikeFrom(_, _, _, _)
LikeFrom(s, i, pattern, j) ==
    IF j > Len(pattern) THEN i > Len(s)
    ELSE IF pattern[j] = "%"
    THEN \E k \in i..Len(s) + 1 : LikeFrom(s, k, pattern, j + 1)
    ELSE IF pattern[j] = "_"
    THEN i <= Len(s) /\ LikeFrom(s, i + 1, pattern, j + 1)
    ELSE IF pattern[j] = "\\" /\ j < Len(pattern)
    THEN i <= Len(s) /\ s[i] = pattern[j + 1] /\ LikeFrom(s, i + 1, pattern, j + 2)
    ELSE i <= Len(s) /\ s[i] = pattern[j] /\ LikeFrom(s, i + 1, pattern, j + 1)

\* LOWER(column) LIKE LOWER(pattern)
Like(column, pattern) == LikeFrom(Lower(column), 1, Lower(pattern), 1)

\* WHERE LOWER(name) LIKE LOWER($1) OR LOWER(city) LIKE LOWER($1), $1 = %name%
SearchMatches(row, name) ==
    \/ Like(row.name, <<"%">> \o name \o <<"%">>)
    \/ Like(row.city, <<"%">> \o name \o <<"%">>)

\* CASE WHEN LOWER(name) LIKE LOWER($2) THEN 1 WHEN LOWER(city) LIKE LOWER($2)
\* THEN 2 ELSE 3 END, $2 = name%
SearchRank(row, name) ==
    IF Like(row.name, name \o <<"%">>) THEN 1
    ELSE IF Like(row.city, name \o <<"%">>) THEN 2
    ELSE 3

\* the order of the characters in the collation of column name
Collation ==
    <<" ", "%", "_", "0", "1", "2", "3", "4", "5", "6", "7", "8", "9">>
    \o UpperCase \o LowerCase

CharRank(c) ==
    IF \E i \in 1..Len(Collation) : Collation[i] = c
    THEN CHOOSE i \in 1..Len(Collation) : Collation[i] = c
    ELSE 0

\* a <= b for two names
RECURSIVE NameLeq(_, _)
NameLeq(a, b) ==
    IF a = <<>> THEN TRUE
    ELSE IF b = <<>> THEN FALSE
    ELSE IF CharRank(Head(a)) # CharRank(Head(b))
    THEN CharRank(Head(a)) < CharRank(Head(b))
    ELSE NameLeq(Tail(a), Tail(b))

\* ORDER BY rank, name: the store may return the rows in any order in which
\* rank, then name, do not decrease
OrderByRankName(rows, name) ==
    LET n == Cardinality(rows)
        Before(a, b) ==
            \/ SearchRank(a, name) < SearchRank(b, name)
            \/ SearchRank(a, name) = SearchRank(b, name) /\ NameLeq(a.name, b.name)
    IN  { s \in [1..n -> rows] :
            /\ \A i, j \in 1..n : i # j => s[i] # s[j]
            /\ \A i \in 1..n - 1 : Before(s[i], s[i + 1]) }

DefaultSearchLimit == 10

\* formatAirport(airport)
FormatFound(a) ==
    [icao |-> a.icao, name |-> a.name, lat |-> a.latitude, lon |-> a.longitude,
     city |-> a.city, type |-> a.type]

\* every list searchByName(name, limit) may return
SearchByName(cat, name, limitArg) ==
    LET limit == Default(limitArg, DefaultSearchLimit)
    IN  { [i \in 1..Len(Limit(s, limit)) |-> FormatFound(s[i])] :
            s \in OrderByRankName({ row \in cat : SearchMatches(row, name) }, name) }

\* searchByName(searchArgs.name, searchArgs.limit)
searchByName ==
    /\ LET error == QueryError(store, Default(searchArgs.limit, DefaultSearchLimit))
       IN  IF error # <<>>
           THEN found' = Thrown(error[1])
           ELSE \E r \in SearchByName(catalog, searchArgs.name, searchArgs.limit) :
                   found' = Returned(r)
    /\ store' = After(store)
    /\ UNCHANGED <<catalog, args, nearest, nearestK, req, res, searchArgs,
                   lookupVars, scriptVars>>

\* The rows the catalogs of the text search are drawn from
TextRows ==
    { Airport("LFPG", <<"P", "a", "r">>, <<"x">>, 49, 2, large),
      Airport("LFOH", <<"L", "e">>, <<"P", "a">>, 49, 0, medium),
      Airport("SSPA", <<"a", "p", "a">>, <<"y">>, -25, -54, small),
      Airport("EGLL", <<"H", "i">>, <<"z">>, 51, 0, large),
      Airport("KPCT", <<"5", "%">>, <<"w">>, 40, -74, small) }

TextCatalogs ==
    { c \in SUBSET TextRows : Cardinality(c) <= MaxCatalog /\ UniqueIcao(c) }

SearchNames ==
    { <<"p", "a">>, <<"P", "A">>, <<"a">>, <<"e">>, <<"%">>, <<"_">>, <<"p", "_">> }

SearchArgSets ==
    [name : SearchNames, limit : {Undefined, Some(1), Some(2)}]

InitText ==
    /\ catalog \in TextCatalogs
    /\ searchArgs \in SearchArgSets
    /\ found = NotCalled
    /\ args = NoArgs
    /\ nearest = NotCalled
    /\ nearestK = NotCalled
    /\ req = NoReq
    /\ res = NoRes
    /\ store = Infinity
    /\ NoLookup
    /\ NoScripts

NextText == searchByName

SpecText == InitText /\ [][NextText]_vars

-----------------------------------------------------------------------------
(* The lookup by identifier.  In the catalogs of the import and of the     *)
(* search route an identifier is a sequence of characters.                 *)

\* every value findByICAO(icao) may return: WHERE LOWER(icao) = LOWER($1)
\* LIMIT 1 has no ORDER BY, the store answers any one of the matching rows
FindByICAO(cat, icao) ==
    LET rows == { row \in cat : Lower(row.icao) = Lower(icao) }
    IN  IF rows = {} THEN { <<>> } ELSE { <<FormatFound(row)>> : row \in rows }

\* the identifiers looked up
IcaoArgs == { <<"a", "b">>, <<"A", "B">>, <<"a", "B">>, <<"c", "d">> }

\* findByICAO(icao)
findByICAO ==
    /\ \E icao \in IcaoArgs :
          /\ icaoArg' = icao
          /\ IF QueryError(store, 1) # <<>>
             THEN byIcao' = Thrown(QueryError(store, 1)[1])
             ELSE \E r \in FindByICAO(catalog, icao) : byIcao' = Returned(r)
    /\ store' = After(store)
    /\ UNCHANGED <<catalog, args, nearest, nearestK, req, res, textVars,
                   dataLoaded, scriptVars>>

-----------------------------------------------------------------------------
(* The import script (src/scripts/importCSV.js).  A row of csv is the      *)
(* object the script builds from a line of the file.                       *)

\* largest number of lines in the CSV file
MaxCsv == 3

CsvRows ==
    { Airport(<<"a", "b">>, <<"N", "1">>, <<>>, 10, 20, large),
      Airport(<<"A", "B">>, <<"N", "2">>, <<>>, 11, 21, small),
      Airport(<<"a", "b">>, <<"N", "3">>, <<>>, 12, 22, medium),
      Airport(<<"c", "d">>, <<"N", "4">>, <<>>, 100, 0, small),
      Airport(<<>>, <<"N", "5">>, <<>>, 13, 23, small),
      Airport(<<"e", "f">>, <<"N", "6">>, <<>>, NaN, 0, small) }

CsvFiles == UNION { [1..n -> CsvRows] : n \in 0..MaxCsv }

\* the rows the script keeps: !airport.icao || isNaN(latitude) || isNaN(longitude)
ValidRow(a) == a.icao # <<>> /\ a.latitude # NaN /\ a.longitude # NaN

\* the values the columns icao VARCHAR(10), latitude DECIMAL(10, 8) and
\* longitude DECIMAL(11, 8) accept
FitsColumns(a) ==
    Len(a.icao) <= 10 /\ Abs(a.latitude) < 100 /\ Abs(a.longitude) < 1000

\* INSERT ... ON CONFLICT (icao) DO UPDATE: the row replaces the row of the
\* same identifier, compared as the UNIQUE constraint compares it
Upsert(table, a) == { row \in table : row.icao # a.icao } \cup { a }

\* the script before its first statement
StartImport ==
    [pc |-> "truncate", airports |-> <<>>, i |-> 1, insertedCount |-> 0,
     tx |-> "none", pending |-> {}, success |-> FALSE]

\* await query('TRUNCATE TABLE airports RESTART IDENTITY CASCADE'), on a
\* connection of the pool, outside the transaction
Truncate ==
    /\ imp.pc = "truncate"
    /\ catalog' = {}
    /\ imp' = [imp EXCEPT !.pc = "read"]
    /\ UNCHANGED <<args, nearest, nearestK, req, res, textVars, store,
                   lookupVars, csv, pool, boot>>

\* the CSV is read; the lines without identifier or coordinates are skipped
ReadCsv ==
    /\ imp.pc = "read"
    /\ imp' = [imp EXCEPT !.pc = "begin", !.airports = SelectSeq(csv, ValidRow)]
    /\ UNCHANGED <<catalog, args, nearest, nearestK, req, res, textVars, store,
                   lookupVars, csv, pool, boot>>

\* await client.query('BEGIN')
Begin ==
    /\ imp.pc = "begin"
    /\ imp' = [imp EXCEPT !.pc = "insert", !.tx = "open", !.pending = catalog]
    /\ UNCHANGED <<catalog, args, nearest, nearestK, req, res, textVars, store,
                   lookupVars, csv, pool, boot>>

\* one turn of the loop: the INSERT of airports[i] in its try/catch.  A
\* statement that fails aborts the transaction of the store, and every
\* statement after it fails until the transaction ends; the catch logs the
\* error and the loop goes on.
Insert ==
    /\ imp.pc = "insert" /\ imp.i <= Len(imp.airports)
    /\ LET a == imp.airports[imp.i]
       IN  imp' = IF imp.tx = "aborted"
                  THEN [imp EXCEPT !.i = @ + 1]
                  ELSE IF ~FitsColumns(a)
                  THEN [imp EXCEPT !.i = @ + 1, !.tx = "aborted"]
                  ELSE [imp EXCEPT !.i = @ + 1, !.insertedCount = @ + 1,
                                   !.pending = Upsert(@, a)]
    /\ UNCHANGED <<catalog, args, nearest, nearestK, req, res, textVars, store,
                   lookupVars, csv, pool, boot>>

\* await client.query('COMMIT'): the COMMIT of an aborted transaction rolls
\* it back and reports no error
Commit ==
    /\ imp.pc = "insert" /\ imp.i > Len(imp.airports)
    /\ catalog' = IF imp.tx = "open" THEN imp.pending ELSE catalog
    /\ imp' = [imp EXCEPT !.pc = "stats", !.tx = "none", !.pending = {}]
    /\ UNCHANGED <<args, nearest, nearestK, req, res, textVars, store,
                   lookupVars, csv, pool, boot>>

\* the statistics and the message of success
Stats ==
    /\ imp.pc = "stats"
    /\ imp' = [imp EXCEPT !.pc = "done", !.success = TRUE]
    /\ UNCHANGED <<catalog, args, nearest, nearestK, req, res, textVars, store,
                   lookupVars, csv, pool, boot>>

\* a row left by an earlier import
OldRow == Airport(<<"o", "l", "d">>, <<"N", "0">>, <<>>, 1, 2, large)

InitImport ==
    /\ catalog \in { {}, {OldRow} }
    /\ csv \in CsvFiles
    /\ imp = StartImport
    /\ store = Infinity
    /\ NoLookup
    /\ pool = NoPool
    /\ boot = NoBoot
    /\ args = NoArgs
    /\ nearest = NotCalled
    /\ nearestK = NotCalled
    /\ req = NoReq
    /\ res = NoRes
    /\ searchArgs = NoSearch
    /\ found = NotCalled

NextImport ==
    \/ Truncate
    \/ ReadCsv
    \/ Begin
    \/ Insert
    \/ Commit
    \/ Stats
    \/ findByICAO

SpecImport == InitImport /\ [][NextImport]_vars

-----------------------------------------------------------------------------
(* The service and the routes over a store that may fail *)

\* isDataLoaded()
isDataLoaded ==
    /\ dataLoaded' = Returned(DataLoaded(store, catalog))
    /\ store' = After(store)
    /\ UNCHANGED <<catalog, args, nearest, nearestK, req, res, textVars,
                   icaoArg, byIcao, scriptVars>>

\* { ...airport, location: { lat: airport.lat, lon: airport.lon } }
WithLocation(a) ==
    [icao |-> a.icao, name |-> a.name, lat |-> a.lat, lon |-> a.lon,
     city |-> a.city, type |-> a.type, location |-> [lat |-> a.lat, lon |-> a.lon]]

\* limit ? parseInt(limit) : 10
RouteSearchLimit(param) ==
    IF Falsy(param) THEN DefaultSearchLimit ELSE ParseNumber(param[1])

\* GET /icao/search
GetIcaoSearch ==
    IF ~DataLoaded(store, catalog)
    THEN /\ res' = Response("/icao/search", 503, FALSE,
                            "Aucune donnee d'aeroport dans la base", 0, <<>>)
         /\ store' = After(store)
         /\ UNCHANGED <<catalog, args, nearest, nearestK, req, textVars,
                        lookupVars, scriptVars>>
    ELSE IF Falsy(req.code) /\ Falsy(req.name)
    THEN /\ res' = Response("/icao/search", 400, FALSE,
                            "Le parametre code ou name est requis", 0, <<>>)
         /\ store' = After(store)
         /\ UNCHANGED <<catalog, args, nearest, nearestK, req, textVars,
                        lookupVars, scriptVars>>
    ELSE IF ~Falsy(req.code)
    THEN LET error == QueryError(After(store), 1)
         IN  /\ IF error # <<>>
                THEN /\ byIcao' = Thrown(error[1])
                     /\ res' = ErrorResponse("/icao/search",
                                             "Erreur lors de la recherche", <<>>)
                ELSE \E airport \in FindByICAO(catalog, req.code[1]) :
                        /\ byIcao' = Returned(airport)
                        /\ res' = IF airport = <<>>
                                  THEN Response("/icao/search", 404, FALSE,
                                                "Aucun aeroport trouve avec le code ICAO",
                                                0, <<>>)
                                  ELSE Response("/icao/search", 200, TRUE, "", 0,
                                                <<WithLocation(airport[1])>>)
             /\ icaoArg' = req.code[1]
             /\ store' = After(After(store))
             /\ UNCHANGED <<catalog, args, nearest, nearestK, req, textVars,
                            dataLoaded, scriptVars>>
    ELSE LET call == [name |-> req.name[1],
                      limit |-> Some(RouteSearchLimit(req.limit))]
             error == QueryError(After(store), call.limit[1])
         IN  /\ IF error # <<>>
                THEN /\ found' = Thrown(error[1])
                     /\ res' = ErrorResponse("/icao/search",
                                             "Erreur lors de la recherche", <<>>)
                ELSE \E airports \in SearchByName(catalog, call.name, call.limit) :
                        /\ found' = Returned(airports)
                        /\ res' = IF airports = <<>>
                                  THEN Response("/icao/search", 404, FALSE,
                                                "Aucun aeroport trouve pour", 0, <<>>)
                                  ELSE Response("/icao/search", 200, TRUE, "",
                                                Len(airports),
                                                [i \in 1..Len(airports) |->
                                                   WithLocation(airports[i])])
             /\ searchArgs' = call
             /\ store' = After(After(store))
             /\ UNCHANGED <<catalog, args, nearest, nearestK, req, lookupVars,
                            scriptVars>>

\* The rows the catalogs of this specification are drawn from
HttpRows ==
    { Airport(<<"a", "b">>, <<"N", "o">>, <<"x">>, 60, 0, large),
      Airport(<<"c", "d">>, <<"a", "n">>, <<"y">>, 61, 1, small) }

HttpCatalogs == { {}, HttpRows }

\* the store never fails, is down, or fails after one more query
Outages == {Infinity, 0, 1}

HttpArgSets ==
    [lat : {60}, lon : {0},
     limit : {Undefined, Some(1), Some(-1), Some(NaN)},
     maxDistance : {Undefined, Some(3000)},
     types : {Undefined}]

HttpSearchArgSets ==
    [name : {<<"n">>}, limit : {Undefined, Some(-1)}]

NoHttpReq ==
    [lat |-> Undefined, lon |-> Undefined, limit |-> Undefined,
     maxDistance |-> Undefined, type |-> Undefined,
     code |-> Undefined, name |-> Undefined]

\* requests that differ by their coordinates, and requests that differ by
\* their limit and by what they search
HttpReqSets ==
    [lat : {Undefined, Some(<<"6", "0">>), Some(<<"x">>), Some(<<"9", "1">>)},
     lon : {Some(<<"0">>)}, limit : {Undefined}, maxDistance : {Undefined},
     type : {Undefined}, code : {Undefined}, name : {Undefined}]
    \cup
    [lat : {Some(<<"6", "0">>)}, lon : {Some(<<"0">>)},
     limit : {Undefined, Some(<<"-", "1">>), Some(<<"x">>)},
     maxDistance : {Undefined}, type : {Undefined},
     code : {Undefined, Some(<<"A", "B">>)},
     name : {Undefined, Some(<<"n">>)}]

InitHttp ==
    /\ catalog \in HttpCatalogs
    /\ store \in Outages
    /\ \/ args \in HttpArgSets /\ searchArgs \in HttpSearchArgSets /\ req = NoHttpReq
       \/ args = NoArgs /\ searchArgs = NoSearch /\ req \in HttpReqSets
    /\ nearest = NotCalled
    /\ nearestK = NotCalled
    /\ found = NotCalled
    /\ res = NoRes
    /\ NoLookup
    /\ NoScripts

NextHttp ==
    \/ findNearestAirport
    \/ findNearestAirports
    \/ findByICAO
    \/ searchByName
    \/ isDataLoaded
    \/ GetIcao
    \/ GetIcaoNearest
    \/ GetIcaoSearch

SpecHttp == InitHttp /\ [][NextHttp]_vars

-----------------------------------------------------------------------------
(* The connection pool of the store (src/config/database.js).  A call of   *)
(* query() runs on a client of the pool; when the max clients are all in   *)
(* use the call waits in the queue of the pool, and the pool rejects it    *)
(* when it has waited connectionTimeoutMillis.                             *)

\* largest number of calls of query() in a run
MaxCalls == 22

max == 20

connectionTimeoutMillis == 2000

\* the time between two readings of the clock
TickMillis == 1000

TimeoutError == "timeout exceeded when trying to connect"

\* no call made yet: running counts the calls that hold a client, waiting
\* is the queue of the calls without client, failed holds the calls that
\* query() rejected with their error
StartPool ==
    [calls |-> 0, running |-> 0, waiting |-> <<>>, failed |-> {}]

\* the pool never rejects a waiting call
ExpiredNever(w) == FALSE

\* the pool rejects the waiting call w
Expired(w) == w.waited >= connectionTimeoutMillis

\* query(text, params) is called: pool.query takes a client, or queues the
\* call when every client is in use
Query ==
    /\ pool.calls < MaxCalls
    /\ pool' = IF pool.running < max
               THEN [pool EXCEPT !.calls = @ + 1, !.running = @ + 1]
               ELSE [pool EXCEPT !.calls = @ + 1,
                                 !.waiting = Append(@, [id |-> pool.calls + 1,
                                                        waited |-> 0])]
    /\ UNCHANGED <<catalog, args, nearest, nearestK, req, res, textVars, store,
                   lookupVars, csv, imp, boot>>

\* the store answers a running query (rows or an error, returned or rethrown
\* by query()); its client goes to the first waiting call, if any
Answer ==
    /\ pool.running > 0
    /\ pool' = IF pool.waiting # <<>>
               THEN [pool EXCEPT !.waiting = Tail(@)]
               ELSE [pool EXCEPT !.running = @ - 1]
    /\ UNCHANGED <<catalog, args, nearest, nearestK, req, res, textVars, store,
                   lookupVars, csv, imp, boot>>

\* time passes for the waiting calls; the timer of a call fires on time
Tick ==
    /\ pool.waiting # <<>>
    /\ \A k \in 1..Len(pool.waiting) : ~Expired(pool.waiting[k])
    /\ \E k \in 1..Len(pool.waiting) :
          pool.waiting[k].waited <= connectionTimeoutMillis
    /\ pool' = [pool EXCEPT !.waiting =
                  [k \in 1..Len(@) |->
                     IF @[k].waited <= connectionTimeoutMillis
                     THEN [@[k] EXCEPT !.waited = @ + TickMillis]
                     ELSE @[k]]]
    /\ UNCHANGED <<catalog, args, nearest, nearestK, req, res, textVars, store,
                   lookupVars, csv, imp, boot>>

\* the timer of a waiting call fires: pool.query rejects, query() logs the
\* error and rethrows it
Timeout ==
    /\ \E k \in 1..Len(pool.waiting) :
          /\ Expired(pool.waiting[k])
          /\ pool' = [pool EXCEPT
                        !.waiting = SubSeq(@, 1, k - 1) \o SubSeq(@, k + 1, Len(@)),
                        !.failed = @ \cup {[id |-> pool.waiting[k].id,
                                            error |-> TimeoutError]}]
    /\ UNCHANGED <<catalog, args, nearest, nearestK, req, res, textVars, store,
                   lookupVars, csv, imp, boot>>

InitPool ==
    /\ pool = StartPool
    /\ catalog = {}
    /\ store = Infinity
    /\ NoLookup
    /\ csv = <<>>
    /\ imp = NoImport
    /\ boot = NoBoot
    /\ args = NoArgs
    /\ nearest = NotCalled
    /\ nearestK = NotCalled
    /\ req = NoReq
    /\ res = NoRes
    /\ searchArgs = NoSearch
    /\ found = NotCalled

NextPool ==
    \/ Query
    \/ Answer
    \/ Tick
    \/ Timeout

SpecPool == InitPool /\ [][NextPool]_vars

\* the clock advances and the timers fire
SpecPoolFair == SpecPool /\ WF_vars(Tick) /\ WF_vars(Timeout)

-----------------------------------------------------------------------------
(* The container entrypoint (docker-entrypoint.sh).  Every command that    *)
(* talks to PostgreSQL (nc, psql, the npm scripts) may succeed or fail.    *)

max_attempts == 30

\* the entrypoint before its first step; table is the state of table
\* airports in the store: "missing", "empty" or "loaded"
StartBoot(table, csvExists) ==
    [pc |-> "wait", attempt |-> 0, reachable |-> FALSE, checked |-> FALSE,
     table |-> table, csvExists |-> csvExists, tableSeen |-> FALSE,
     migrated |-> FALSE, imported |-> FALSE, started |-> FALSE,
     exit |-> <<>>]

\* exit 1, and the exit of set -e when a command fails
Exit(b) == [b EXCEPT !.pc = "exit", !.exit = <<1>>]

\* one test of the loop "until nc -z postgres 5432", and the body of the
\* loop when nc fails
wait_for_postgres ==
    /\ boot.pc = "wait"
    /\ \E nc \in BOOLEAN :
          boot' = IF nc
                  THEN [boot EXCEPT !.pc = "check", !.reachable = TRUE]
                  ELSE IF boot.attempt + 1 >= max_attempts
                  THEN Exit([boot EXCEPT !.attempt = @ + 1])
                  ELSE [boot EXCEPT !.attempt = @ + 1]
    /\ UNCHANGED <<catalog, args, nearest, nearestK, req, res, textVars, store,
                   lookupVars, csv, imp, pool>>

\* if ! check_database_connection; then exit 1
check_database_connection ==
    /\ boot.pc = "check"
    /\ \E psql \in BOOLEAN :
          boot' = IF psql
                  THEN [boot EXCEPT !.pc = "migrate", !.checked = TRUE]
                  ELSE Exit(boot)
    /\ UNCHANGED <<catalog, args, nearest, nearestK, req, res, textVars, store,
                   lookupVars, csv, imp, pool>>

\* TABLE_EXISTS=$(psql ... || echo "f")
TableExists(psql, table) == IF psql /\ table # "missing" THEN "t" ELSE "f"

\* migrate_database: npm run db:migrate when TABLE_EXISTS is "f"; the
\* migration creates the table if it does not exist
migrate_database ==
    /\ boot.pc = "migrate"
    /\ \E psql \in BOOLEAN :
          IF TableExists(psql, boot.table) = "f"
          THEN \E migrate \in BOOLEAN :
                  boot' = IF migrate
                          THEN [boot EXCEPT
                                  !.pc = "import", !.migrated = TRUE,
                                  !.tableSeen = TRUE,
                                  !.table = IF @ = "missing" THEN "empty" ELSE @]
                          ELSE Exit(boot)
          ELSE boot' = [boot EXCEPT !.pc = "import", !.tableSeen = TRUE]
    /\ UNCHANGED <<catalog, args, nearest, nearestK, req, res, textVars, store,
                   lookupVars, csv, imp, pool>>

\* COUNT=$(psql ... || echo "0")
Count(psql, table) == IF psql /\ table = "loaded" THEN "n" ELSE "0"

\* import_data: npm run db:import when COUNT is "0" and the CSV file exists;
\* the import truncates the table and leaves what it committed
import_data ==
    /\ boot.pc = "import"
    /\ \E psql \in BOOLEAN :
          IF Count(psql, boot.table) = "0" /\ boot.csvExists
          THEN \E import \in BOOLEAN, table \in {"empty", "loaded"} :
                  boot' = IF import
                          THEN [boot EXCEPT !.pc = "start", !.imported = TRUE,
                                            !.table = table]
                          ELSE Exit([boot EXCEPT !.imported = TRUE])
          ELSE boot' = [boot EXCEPT !.pc = "start"]
    /\ UNCHANGED <<catalog, args, nearest, nearestK, req, res, textVars, store,
                   lookupVars, csv, imp, pool>>

\* exec npm start
start ==
    /\ boot.pc = "start"
    /\ boot' = [boot EXCEPT !.pc = "server", !.started = TRUE]
    /\ UNCHANGED <<catalog, args, nearest, nearestK, req, res, textVars, store,
                   lookupVars, csv, imp, pool>>

InitBoot ==
    /\ \E table \in {"missing", "empty", "loaded"}, csvExists \in BOOLEAN :
          boot = StartBoot(table, csvExists)
    /\ catalog = {}
    /\ store = Infinity
    /\ NoLookup
    /\ csv = <<>>
    /\ imp = NoImport
    /\ pool = NoPool
    /\ args = NoArgs
    /\ nearest = NotCalled
    /\ nearestK = NotCalled
    /\ req = NoReq
    /\ res = NoRes
    /\ searchArgs = NoSearch
    /\ found = NotCalled

NextBoot ==
    \/ wait_for_postgres
    \/ check_database_connection
    \/ migrate_database
    \/ import_data
    \/ start

SpecBoot == InitBoot /\ [][NextBoot]_vars

-----------------------------------------------------------------------------
(* Properties *)

\* the radius and the categories the call under study works with
EffMaxDistance == Default(args.maxDistance, Infinity)
EffTypes == Default(args.types, DefaultTypes)
EffLimit == Default(args.limit, DefaultLimit)

\* the great-circle distance from the query point to a returned facility,
\* computed again from its coordinates
ExactDistance(a) == Distance(args.lat, args.lon, a.lat, a.lon)

RowDistance(row) == Distance(args.lat, args.lon, row.latitude, row.longitude)

RowInRectangle(row) ==
    InRectangle(row, args.lat, args.lon,
                LatRange(EffMaxDistance), LonRange(args.lat, EffMaxDistance))

\* a facility of category type may be returned when the categories are types
Eligible(type, types) == types = <<>> \/ \E i \in 1..Len(types) : types[i] = type

\* C1: with a finite maxDistance r, every facility findNearestAirports
\* returns and the facility findNearestAirport returns lie within r of the
\* query point by the great-circle distance, and findNearestAirport returns
\* null when no facility of a requested category is within r.
C1_WithinRadius ==
    EffMaxDistance # Infinity =>
      /\ nearestK.called =>
           \A i \in 1..Len(nearestK.ret) :
              ExactDistance(nearestK.ret[i]) <= Km(EffMaxDistance)
      /\ (nearest.called /\ nearest.ret # <<>>) =>
           ExactDistance(nearest.ret[1]) <= Km(EffMaxDistance)
      /\ (nearest.called
            /\ \A row \in catalog :
                  Eligible(row.type, EffTypes) =>
                    RowDistance(row) > Km(EffMaxDistance)) =>
           nearest.ret = <<>>

\* C1 witness: both queries answered nothing although a facility of a
\* requested category lies in the rectangle, beyond the radius.
C1_Witness ==
    /\ EffMaxDistance # Infinity
    /\ nearest.called /\ nearest.ret = <<>>
    /\ nearestK.called /\ nearestK.ret = <<>> /\ EffLimit > 0
    /\ \E row \in catalog :
          /\ RowInRectangle(row) /\ Eligible(row.type, EffTypes)
          /\ RowDistance(row) > Km(EffMaxDistance)

\* C4: the list findNearestAirports returns is in non-decreasing order of
\* distance from the query point.
C4_Ordered ==
    nearestK.called =>
      \A i \in 1..Len(nearestK.ret) - 1 :
         ExactDistance(nearestK.ret[i]) <= ExactDistance(nearestK.ret[i + 1])

\* C4 witness: a list of two facilities at different distances was returned.
C4_Witness ==
    /\ nearestK.called /\ Len(nearestK.ret) >= 2
    /\ ExactDistance(nearestK.ret[1]) < ExactDistance(nearestK.ret[2])

\* C2: with a finite maxDistance r, the rectangle of the geographic queries
\* contains every facility whose great-circle distance from the query point
\* is at most r.
C2_RectangleContainsCircle ==
    ((nearest.called \/ nearestK.called) /\ EffMaxDistance # Infinity) =>
      \A row \in catalog :
         RowDistance(row) <= Km(EffMaxDistance) => RowInRectangle(row)

\* C3: with an unbounded maxDistance every facility of the catalog is in the
\* rectangle, so findNearestAirport returns a facility whenever the catalog
\* holds a facility of a requested category.
C3_UnboundedCoversSphere ==
    (nearest.called /\ EffMaxDistance = Infinity) =>
      /\ \A row \in catalog : RowInRectangle(row)
      /\ (\E row \in catalog : Eligible(row.type, EffTypes)) =>
           nearest.ret # <<>>

\* C5: findNearestAirport returns the first element of the list
\* findNearestAirports returns for the same arguments and limit 1, and null
\* exactly when that list is empty.
C5_NearestIsFirstOfK ==
    (nearest.called /\ nearestK.called /\ EffLimit = 1) =>
      /\ nearest.ret = <<>> <=> nearestK.ret = <<>>
      /\ nearest.ret # <<>> => nearest.ret[1] = nearestK.ret[1]

\* C6: with a finite maxDistance the longitude delta of the rectangle is at
\* most 180 degrees, for every query latitude.
C6_LonRangeClamped ==
    ((nearest.called \/ nearestK.called) /\ EffMaxDistance # Infinity) =>
      LonRange(args.lat, EffMaxDistance) <= FullLonRange * 1000

\* C9: a second findNearestAirports or findNearestAirport call with the same
\* arguments on the same catalog returns what the first returned.
C9_Deterministic ==
    [][/\ (nearestK.called /\ nearestK'.called /\ args' = args) =>
            nearestK'.ret = nearestK.ret
       /\ (nearest.called /\ nearest'.called /\ args' = args) =>
            nearest'.ret = nearest.ret]_vars

\* the facilities of the rectangle and the radius whose category is among
\* types are all returned (as far as the limit allows), and no other is
ReturnsExactly(types) ==
    LET Expected(row) ==
          /\ RowInRectangle(row)
          /\ RowDistance(row) <= Km(EffMaxDistance)
          /\ Eligible(row.type, types)
    IN  /\ nearestK.called =>
           /\ \A i \in 1..Len(nearestK.ret) : Eligible(nearestK.ret[i].type, types)
           /\ Len(nearestK.ret) < EffLimit =>
                \A row \in catalog :
                   Expected(row) =>
                     \E i \in 1..Len(nearestK.ret) : nearestK.ret[i].icao = row.icao
        /\ nearest.called =>
           /\ nearest.ret # <<>> => Eligible(nearest.ret[1].type, types)
           /\ nearest.ret = <<>> => \A row \in catalog : ~Expected(row)

\* C7 as claimed: an empty category set and an absent one both mean no
\* restriction; a non-empty set restricts the result to its categories.
C7_AbsentOrEmptyUnrestricted ==
    ReturnsExactly(IF args.types = Undefined THEN <<>> ELSE args.types[1])

\* C7: an empty category set means no restriction, an absent one means the
\* three airport categories large_airport, medium_airport and small_airport,
\* and a non-empty set restricts the result to its categories.
C7_EmptyUnrestrictedAbsentDefault ==
    ReturnsExactly(IF args.types = Undefined
                   THEN <<"large_airport", "medium_airport", "small_airport">>
                   ELSE args.types[1])

\* C7 witness: called without a category set, findNearestAirports returned
\* an airport and left out a heliport that is in the rectangle.
C7_Witness ==
    /\ args.types = Undefined
    /\ nearestK.called /\ Len(nearestK.ret) > 0 /\ Len(nearestK.ret) < EffLimit
    /\ \E row \in catalog :
          /\ row.type = "heliport" /\ RowInRectangle(row)
          /\ RowDistance(row) <= Km(EffMaxDistance)
          /\ \A i \in 1..Len(nearestK.ret) : nearestK.ret[i].icao # row.icao

\* the request has coordinates validateCoordinates accepts
ValidCoordinates(r) ==
    /\ ~Falsy(r.lat) /\ ~Falsy(r.lon)
    /\ ParseNumber(r.lat[1]) # NaN /\ ParseNumber(r.lon[1]) # NaN
    /\ ParseNumber(r.lat[1]) >= -90 /\ ParseNumber(r.lat[1]) <= 90
    /\ ParseNumber(r.lon[1]) >= -180 /\ ParseNumber(r.lon[1]) <= 180

LimitZeroRequest ==
    /\ res.sent /\ res.route = "/icao/nearest"
    /\ req.limit = Some(<<"0">>) /\ ValidCoordinates(req)

EmptyList200 ==
    res.status = 200 /\ res.success /\ res.count = 0 /\ res.data = <<>>

\* C8 as claimed: findNearestAirports with limit 0 returns the empty list,
\* and GET /icao/nearest?limit=0 answers success with count 0, for every
\* catalog.
C8_LimitZeroEveryCatalog ==
    /\ (nearestK.called /\ args.limit = Some(0)) => nearestK.ret = <<>>
    /\ LimitZeroRequest => EmptyList200

\* C8: findNearestAirports with limit 0 returns the empty list for every
\* catalog; GET /icao/nearest?limit=0 answers success with count 0 when the
\* catalog is not empty, and 503 when it is empty.
C8_LimitZero ==
    /\ (nearestK.called /\ args.limit = Some(0)) => nearestK.ret = <<>>
    /\ (LimitZeroRequest /\ catalog # {}) => EmptyList200
    /\ (LimitZeroRequest /\ catalog = {}) => res.status = 503

\* C8 witness: GET /icao/nearest?limit=0 was answered with an empty list
\* where the default limit returns a facility.
C8_Witness ==
    /\ LimitZeroRequest /\ EmptyList200
    /\ nearestK.called /\ nearestK.ret = <<>>
    /\ \E list \in NearestAirports(catalog, args.lat, args.lon, Undefined,
                                   args.maxDistance, args.types) : Len(list) > 0

\* s contains q as a sequence of consecutive characters
Contains(s, q) ==
    \E i \in 0..Len(s) - Len(q) : \A k \in 1..Len(q) : s[i + k] = q[k]

\* name or city contains q, letter case ignored
ContainsText(row, q) ==
    \/ Contains(Lower(row.name), Lower(q))
    \/ Contains(Lower(row.city), Lower(q))

\* C10: searchByName returns only facilities whose name or city contains the
\* searched text as a literal substring, letter case ignored, and all of them
\* when they are not more than limit.
C10_LiteralSubstring ==
    found.called =>
      /\ \A i \in 1..Len(found.ret) : ContainsText(found.ret[i], searchArgs.name)
      /\ Cardinality({ row \in catalog : ContainsText(row, searchArgs.name) })
           <= Default(searchArgs.limit, 10) =>
           \A row \in catalog :
              ContainsText(row, searchArgs.name) =>
                \E i \in 1..Len(found.ret) : found.ret[i].icao = row.icao

\* s starts with q
StartsWith(s, q) == Len(q) <= Len(s) /\ \A k \in 1..Len(q) : s[k] = q[k]

\* 1 when the name starts with q, 2 when only the city does, 3 otherwise,
\* letter case ignored
PrefixRank(row, q) ==
    IF StartsWith(Lower(row.name), Lower(q)) THEN 1
    ELSE IF StartsWith(Lower(row.city), Lower(q)) THEN 2
    ELSE 3

\* a is not after b by rank of q, then by name
RankNameLeq(a, b, q) ==
    \/ PrefixRank(a, q) < PrefixRank(b, q)
    \/ PrefixRank(a, q) = PrefixRank(b, q) /\ NameLeq(a.name, b.name)

\* C11: the list searchByName returns is ordered by rank then name:
\* facilities whose name starts with the searched text come first, then those
\* whose city only starts with it, then the other matches, each rank in
\* alphabetical order of name; the truncation to limit keeps a prefix of
\* this order.
C11_RankThenName ==
    found.called =>
      /\ \A i \in 1..Len(found.ret) - 1 :
            RankNameLeq(found.ret[i], found.ret[i + 1], searchArgs.name)
      /\ \A row \in catalog :
            (/\ SearchMatches(row, searchArgs.name)
             /\ \A i \in 1..Len(found.ret) : found.ret[i].icao # row.icao) =>
              /\ Len(found.ret) = Default(searchArgs.limit, DefaultSearchLimit)
              /\ \A i \in 1..Len(found.ret) :
                    RankNameLeq(found.ret[i], row, searchArgs.name)

\* C12: in every catalog the import script leaves, at most one record matches
\* an identifier ignoring case, and two calls of findByICAO with identifiers
\* equal ignoring case return the identical record, or null both.
C12_CaseInsensitiveLookup ==
    /\ [](\A icao \in IcaoArgs :
             Cardinality({ row \in catalog : Lower(row.icao) = Lower(icao) }) <= 1)
    /\ [][(/\ byIcao.called /\ byIcao'.called
           /\ catalog' = catalog
           /\ Lower(icaoArg') = Lower(icaoArg)) => byIcao'.ret = byIcao.ret]_vars

\* the rows of the CSV the script keeps and the store accepts
AcceptedRows ==
    { csv[k] : k \in { j \in 1..Len(csv) : ValidRow(csv[j]) /\ FitsColumns(csv[j]) } }

\* the number of these rows whose identifier an earlier one of them has
SharedIdentifiers ==
    LET accepted == { j \in 1..Len(csv) : ValidRow(csv[j]) /\ FitsColumns(csv[j]) }
    IN  Cardinality({ j \in accepted :
                        \E k \in accepted : k < j /\ csv[k].icao = csv[j].icao })

\* C19: the failure of one INSERT of the import affects that row only: once
\* the script has committed and reported success, the catalog has a record
\* for every other valid row of the CSV, as many records as these rows have
\* distinct identifiers (the inserted count minus the rows sharing an
\* identifier), and it is not empty when there is such a row.
C19_RowFailureIsolated ==
    imp.success =>
      /\ \A a \in AcceptedRows : \E row \in catalog : row.icao = a.icao
      /\ Cardinality(catalog) = Cardinality({ a.icao : a \in AcceptedRows })
      /\ Cardinality(catalog) = imp.insertedCount - SharedIdentifiers
      /\ AcceptedRows # {} => catalog # {}

\* C13: when the store fails, every operation of the service surfaces the
\* failure to its caller: findNearestAirport, findNearestAirports, findByICAO,
\* searchByName and isDataLoaded reject with the error of the store instead
\* of returning a value, and each issues its query once.
C13_FailureSurfaces ==
    [][/\ store = 0 =>
            /\ nearest' # nearest => nearest'.error = <<ConnectionError>>
            /\ nearestK' # nearestK => nearestK'.error = <<ConnectionError>>
            /\ byIcao' # byIcao => byIcao'.error = <<ConnectionError>>
            /\ found' # found => found'.error = <<ConnectionError>>
            /\ dataLoaded' # dataLoaded => dataLoaded'.error = <<ConnectionError>>
       /\ (store = 1 /\ res' = res) => store' = 0]_vars

\* C14: no response of /icao, /icao/nearest or /icao/search carries the
\* detail of an internal error (the message of the caught error).
C14_NoErrorDetail == res.sent => res.error = <<>>

\* lat or lon of the request is missing, not a number or out of range
InvalidCoordinates(r) ==
    \/ Falsy(r.lat) \/ Falsy(r.lon)
    \/ ParseNumber(r.lat[1]) = NaN \/ ParseNumber(r.lon[1]) = NaN
    \/ Abs(ParseNumber(r.lat[1])) > 90 \/ Abs(ParseNumber(r.lon[1])) > 180

\* C15: a request to /icao or /icao/nearest with invalid coordinates is
\* answered 400 in every state of the catalog and of the store, and the geo
\* query of the service is not invoked for it.
C15_InvalidCoordinates400 ==
    [][(/\ res' # res
        /\ res'.route \in {"/icao", "/icao/nearest"}
        /\ InvalidCoordinates(req)) =>
          /\ res'.status = 400
          /\ nearest' = nearest /\ nearestK' = nearestK]_vars

\* a limit that is negative or not a number
BadLimit(limit) == limit = NaN \/ limit < 0

\* C16: a negative or non-numeric limit is rejected as invalid input before
\* it reaches the store: over a loaded catalog, GET /icao/nearest and the
\* text search of GET /icao/search answer 400 and call no operation of the
\* service, and the store never rejects the LIMIT of findNearestAirports or
\* of searchByName.
C16_BadLimitRejected ==
    [][/\ (/\ res' # res
           /\ DataLoaded(store, catalog)
           /\ \/ res'.route = "/icao/nearest" /\ ~InvalidCoordinates(req)
              \/ res'.route = "/icao/search" /\ Falsy(req.code) /\ ~Falsy(req.name)
           /\ ~Falsy(req.limit) /\ BadLimit(ParseNumber(req.limit[1]))) =>
             /\ res'.status = 400
             /\ nearestK' = nearestK /\ found' = found
       /\ nearestK'.error \notin {<<InvalidLimit>>, <<NegativeLimit>>}
       /\ found'.error \notin {<<InvalidLimit>>, <<NegativeLimit>>}]_vars

\* the candidates of the query (rectangle and categories) within the radius
InRadius ==
    { row \in catalog :
        /\ RowInRectangle(row) /\ Eligible(row.type, EffTypes)
        /\ RowDistance(row) <= Km(EffMaxDistance) }

\* C18: findNearestAirports truncates to limit in the store before it filters
\* by the radius, and the result is that of filtering first: with limit >= 0
\* and a finite maxDistance the list has min(limit, n) elements, n the number
\* of candidates within the radius, all of them within the radius and none
\* farther than a candidate within the radius that was left out.
C18_TruncateThenFilter ==
    (/\ nearestK.called /\ nearestK.error = <<>>
     /\ EffMaxDistance # Infinity /\ EffLimit >= 0) =>
      /\ Len(nearestK.ret) =
           IF EffLimit < Cardinality(InRadius) THEN EffLimit
           ELSE Cardinality(InRadius)
      /\ \A i \in 1..Len(nearestK.ret) :
            \E row \in InRadius : row.icao = nearestK.ret[i].icao
      /\ \A row \in InRadius :
            (\A i \in 1..Len(nearestK.ret) : nearestK.ret[i].icao # row.icao) =>
              \A i \in 1..Len(nearestK.ret) :
                 ExactDistance(nearestK.ret[i]) <= RowDistance(row)

\* C18 witness: the limit cut a list of candidates of which one was beyond
\* the radius, and the nearest candidate within the radius was returned.
C18_Witness ==
    /\ nearestK.called /\ nearestK.error = <<>>
    /\ EffMaxDistance # Infinity /\ EffLimit = 1
    /\ Len(nearestK.ret) = 1
    /\ \E row \in catalog :
          /\ RowInRectangle(row) /\ Eligible(row.type, EffTypes)
          /\ RowDistance(row) > Km(EffMaxDistance)

\* call c of query() waits for a client
Waiting(c) == \E k \in 1..Len(pool.waiting) : pool.waiting[k].id = c

\* C17: when the max clients of the pool are all held by running queries, a
\* further call of query() does not wait indefinitely: it has a client or
\* is rejected with the connection timeout error when
\* connectionTimeoutMillis have passed, and its rejection leaves the running
\* queries and the other waiting calls as they are.
C17_SaturatedPool ==
    /\ [](\A k \in 1..Len(pool.waiting) :
             /\ pool.running = max
             /\ pool.waiting[k].waited <= connectionTimeoutMillis)
    /\ [][pool'.failed # pool.failed =>
            /\ pool'.running = pool.running
            /\ \A k \in 1..Len(pool.waiting) :
                  \/ \E j \in 1..Len(pool'.waiting) :
                        pool'.waiting[j] = pool.waiting[k]
                  \/ pool.waiting[k].id \in { f.id : f \in pool'.failed }
            /\ \A f \in pool'.failed : f.error = TimeoutError]_vars
    /\ \A c \in 1..MaxCalls : Waiting(c) ~> ~Waiting(c)

\* C17 witness: every client is held by a running query, a further call was
\* rejected with the timeout error and another one waits.
C17_Witness ==
    /\ pool.running = max
    /\ pool.failed # {}
    /\ pool.waiting # <<>>

\* C20: the entrypoint starts the server only after PostgreSQL was
\* reachable, then the connection check succeeded, then table airports
\* exists; it runs the import only when the table is empty and the CSV file
\* exists; the wait for PostgreSQL ends with a failure exit after at most 30
\* attempts; a failed check, migration or import leaves the server unstarted.
C20_Entrypoint ==
    /\ [](/\ boot.started =>
               /\ boot.reachable /\ boot.checked /\ boot.tableSeen
               /\ boot.table # "missing"
          /\ boot.tableSeen => boot.checked
          /\ boot.checked => boot.reachable
          /\ boot.attempt <= max_attempts
          /\ (boot.attempt = max_attempts) => (boot.exit = <<1>> /\ ~boot.reachable)
          /\ boot.exit # <<>> => ~boot.started)
    /\ [][(boot'.imported /\ ~boot.imported) =>
             (boot.table = "empty" /\ boot.csvExists)]_vars

====
